---- MODULE Spec2Model ----
(***************************************************************************)
(* plotters-gtk4: the two plotters drawing backends over GTK4.             *)
(*                                                                         *)
(*   src/src/common.rs     primitives shared by PaintableBackend           *)
(*   src/src/snapshot.rs   SnapshotBackend, drawing on a caller's          *)
(*                         gtk::Snapshot                                   *)
(*   src/src/paintable.rs  Paintable (a gdk::Paintable holding a render    *)
(*                         node) and PaintableBackend (a drawing session   *)
(*                         that records into its own gtk::Snapshot and     *)
(*                         commits it to the Paintable)                    *)
(*                                                                         *)
(* A gtk::Snapshot is modelled by what the code does to it: the nodes      *)
(* appended, each with the transform and the clips in force when it was    *)
(* appended, the stack of save / push_clip frames, and the log of the      *)
(* calls made on it.                                                       *)
(*                                                                         *)
(* Option<T> is a sequence of length 0 (None) or 1 (Some).                 *)
(* Text offsets can be half pixels (width / 2.0): every translation is     *)
(* kept in units of half a pixel.                                          *)
(***************************************************************************)
EXTENDS Integers, Sequences, FiniteSets, TLC

VARIABLES
    width,        \* imp::Paintable.width  (OnceCell<u32>)
    height,       \* imp::Paintable.height (OnceCell<u32>)
    node,         \* imp::Paintable.node   (RefCell<Option<gsk::RenderNode>>)
    ctor_size,    \* history: the (w, h) handed to Paintable::new
    pb,           \* the PaintableBackend value: "absent", "live" or "dropped"
    pb_snapshot,  \* PaintableBackend.snapshot (Option<gtk::Snapshot>)
    pb_size,      \* PaintableBackend.size
    pb_presented, \* history: a present of this session has committed
    sb,           \* the SnapshotBackend value: "absent" or "live"
    sb_snapshot,  \* the caller's gtk::Snapshot borrowed by SnapshotBackend
    sb_size,      \* SnapshotBackend.(width, height)
    sink,         \* the gdk::Snapshot handed to the latest paint, if any
    last          \* history: the latest call, its arguments and its effects

vars == <<width, height, node, ctor_size, pb, pb_snapshot, pb_size,
          pb_presented, sb, sb_snapshot, sb_size, sink, last>>

(***************************************************************************)
(* Bounds of the model.                                                    *)
(***************************************************************************)
\* nodes one recorder holds in the session life cycle (Spec)
MaxNodes == 1
\* nodes one recorder holds when sequences of calls are exercised (SpecSeq)
SeqNodes == 3
\* nodes one recorder holds when the primitives are exercised (SpecPrim)
PrimNodes == 1
\* longest coordinate sequence given to draw_path / fill_polygon in SpecPrim
MaxLen == 2
\* nodes one recorder holds when commits are repeated (SpecCommit)
CommitNodes == 2

None == <<>>
Some(x) == <<x>>
IsSome(o) == Len(o) = 1
Unwrap(o) == o[1]

(***************************************************************************)
(* gtk::Snapshot, gsk::PathBuilder: the toolkit operations the code uses.  *)
(***************************************************************************)
Snapshot_new == [nodes |-> <<>>, stack |-> <<>>, xf |-> <<>>, log |-> <<>>]

Clips(stack) == SelectSeq(stack, LAMBDA f : f.kind = "clip")

\* every append_* of the code: one node, under the transform and clips in force
append_node(s, n) ==
    [s EXCEPT !.nodes = Append(@, [node |-> n, xf |-> s.xf, clip |-> Clips(s.stack)]),
              !.log = Append(@, "append")]

save(s) ==
    [s EXCEPT !.stack = Append(@, [kind |-> "save", xf |-> s.xf, rect |-> <<0, 0, 0, 0>>]),
              !.log = Append(@, "save")]

restore(s) ==
    [s EXCEPT !.stack = SubSeq(@, 1, Len(@) - 1), !.xf = s.stack[Len(s.stack)].xf,
              !.log = Append(@, "restore")]

push_clip(s, rect) ==
    [s EXCEPT !.stack = Append(@, [kind |-> "clip", xf |-> s.xf, rect |-> rect]),
              !.log = Append(@, "push_clip")]

pop(s) == [s EXCEPT !.stack = SubSeq(@, 1, Len(@) - 1), !.log = Append(@, "pop")]

\* x and y in half pixels
translate(s, x, y) ==
    [s EXCEPT !.xf = Append(@, [op |-> "translate", a |-> x, b |-> y, c |-> 0, d |-> 0]),
              !.log = Append(@, "translate")]

rotate(s, deg) ==
    [s EXCEPT !.xf = Append(@, [op |-> "rotate", a |-> deg, b |-> 0, c |-> 0, d |-> 0]),
              !.log = Append(@, "rotate")]

\* the factors are the quotients a / c and b / d
scale(s, a, c, b, d) ==
    [s EXCEPT !.xf = Append(@, [op |-> "scale", a |-> a, b |-> b, c |-> c, d |-> d]),
              !.log = Append(@, "scale")]

to_node(s) == IF s.nodes = <<>> THEN None ELSE Some(s.nodes)

move_to(p, x, y) == Append(p, [op |-> "move_to", x |-> x, y |-> y, r |-> 0])
line_to(p, x, y) == Append(p, [op |-> "line_to", x |-> x, y |-> y, r |-> 0])
close(p) == Append(p, [op |-> "close", x |-> 0, y |-> 0, r |-> 0])
add_circle(p, x, y, r) == Append(p, [op |-> "circle", x |-> x, y |-> y, r |-> r])

RECURSIVE line_to_all(_, _)
line_to_all(p, pts) ==
    IF pts = <<>> THEN p
    ELSE line_to_all(line_to(p, pts[1][1], pts[1][2]), Tail(pts))

\* i32 as f32, in half pixels
F2(i) == 2 * i


(***************************************************************************)
(* Color/style mapping and the text layout bridge.                         *)
(***************************************************************************)
\* each channel is the quotient by 255; alpha passes through
BackendColorExt_to_rgba(color) ==
    [red   |-> <<color.rgb[1], 255>>,
     green |-> <<color.rgb[2], 255>>,
     blue  |-> <<color.rgb[3], 255>>,
     alpha |-> color.alpha]

Layout_new == [text |-> "", font_desc |-> None]

layout_set_text(layout, text) == [layout EXCEPT !.text = text]

\* pango::FontDescription::new() has style Normal and weight Normal
layout_set_style(layout, style) ==
    LET base == [family |-> style.family, size |-> style.size,
                 style |-> "Normal", weight |-> "Normal"]
        font_desc ==
            CASE style.style = "Normal"  -> [base EXCEPT !.style = "Normal"]
              [] style.style = "Bold"    -> [base EXCEPT !.weight = "Bold"]
              [] style.style = "Italic"  -> [base EXCEPT !.style = "Italic"]
              [] style.style = "Oblique" -> [base EXCEPT !.style = "Oblique"]
    IN  [layout EXCEPT !.font_desc = Some(font_desc)]

\* i32 as u32: unchanged from 0 on, 2^32 more below 0 (pango sizes are >= 0)
as_u32(i) == IF i >= 0 THEN i ELSE i + 65536 * 65536

\* pixel_size is what layout.pixel_size() answers for the configured layout
common_estimate_text_size(layout, text, style, pixel_size) ==
    LET l == layout_set_style(layout_set_text(layout, text), style)
    IN  [layout |-> l, size |-> <<as_u32(pixel_size[1]), as_u32(pixel_size[2])>>]

append_layout(s, layout, extents, rgba) ==
    append_node(s, [kind |-> "text", layout |-> layout, extents |-> extents, rgba |-> rgba])

(***************************************************************************)
(* src/src/common.rs: the primitives PaintableBackend delegates to.        *)
(***************************************************************************)
common_FILL_RULE == "Winding"

common_draw_pixel(snapshot, point, color) ==
    append_node(snapshot, [kind |-> "color", rgba |-> BackendColorExt_to_rgba(color),
                           bounds |-> <<point[1], point[2], 1, 1>>])

common_stroke(snapshot, path, style) ==
    append_node(snapshot, [kind |-> "stroke", path |-> path, width |-> style.stroke_width,
                           rgba |-> BackendColorExt_to_rgba(style.color)])

common_draw_line(snapshot, from, to, style) ==
    LET path == line_to(move_to(<<>>, from[1], from[2]), to[1], to[2])
    IN  common_stroke(snapshot, path, style)

common_draw_rect(snapshot, upper_left, bottom_right, style, fill) ==
    LET bounds == <<upper_left[1], upper_left[2],
                    bottom_right[1] - upper_left[1], bottom_right[2] - upper_left[2]>>
        rgba == BackendColorExt_to_rgba(style.color)
        w == style.stroke_width
    IN  IF fill
        THEN append_node(snapshot, [kind |-> "color", rgba |-> rgba, bounds |-> bounds])
        ELSE append_node(snapshot, [kind |-> "border", bounds |-> bounds,
                                    widths |-> <<w, w, w, w>>,
                                    colors |-> <<rgba, rgba, rgba, rgba>>])

\* A draw_path that strokes the empty path too.
draw_path_strokes_empty(snapshot, raw_path, style) ==
    IF raw_path = <<>> THEN common_stroke(snapshot, <<>>, style)
    ELSE LET first == Head(raw_path)
             path == line_to_all(move_to(<<>>, first[1], first[2]), Tail(raw_path))
         IN  common_stroke(snapshot, path, style)

common_draw_path(snapshot, raw_path, style) ==
    IF raw_path = <<>> THEN snapshot
    ELSE LET first == Head(raw_path)
             path == line_to_all(move_to(<<>>, first[1], first[2]), Tail(raw_path))
         IN  common_stroke(snapshot, path, style)

common_fill_polygon(snapshot, vert, style) ==
    IF vert = <<>> THEN snapshot
    ELSE LET first == Head(vert)
             open == line_to_all(move_to(<<>>, first[1], first[2]), Tail(vert))
             path == close(open)
         IN  append_node(snapshot, [kind |-> "fill", path |-> path, rule |-> common_FILL_RULE,
                                    rgba |-> BackendColorExt_to_rgba(style.color)])

common_draw_circle(snapshot, center, radius, style, fill) ==
    LET path == add_circle(<<>>, center[1], center[2], radius)
    IN  IF fill
        THEN append_node(snapshot, [kind |-> "fill", path |-> path, rule |-> common_FILL_RULE,
                                    rgba |-> BackendColorExt_to_rgba(style.color)])
        ELSE common_stroke(snapshot, path, style)

\* dx, in half pixels: (-extents.width() as f32) / 2.0 is -width half pixels
common_dx(style, extents) ==
    CASE style.anchor.h_pos = "Left"   -> 0
      [] style.anchor.h_pos = "Center" -> 0 - extents.width
      [] style.anchor.h_pos = "Right"  -> 0 - F2(extents.width)

\* A dy with the offsets of Top and Bottom exchanged.
dy_top_bottom_swapped(style, extents) ==
    CASE style.anchor.v_pos = "Top"    -> 0
      [] style.anchor.v_pos = "Center" -> extents.height
      [] style.anchor.v_pos = "Bottom" -> F2(extents.height)

\* dy, in half pixels
common_dy(style, extents) ==
    CASE style.anchor.v_pos = "Top"    -> F2(extents.height)
      [] style.anchor.v_pos = "Center" -> extents.height
      [] style.anchor.v_pos = "Bottom" -> 0

FontTransform_degrees(transform) ==
    CASE transform = "None"      -> 0
      [] transform = "Rotate90"  -> 90
      [] transform = "Rotate180" -> 180
      [] transform = "Rotate270" -> 270

\* extents is what layout.pixel_extents() answers (the logical rectangle)
common_draw_text(snapshot, layout, text, style, pos, extents) ==
    LET l == layout_set_style(layout_set_text(layout, text), style)
        s1 == save(snapshot)
        dx == common_dx(style, extents)
        dy == common_dy(style, extents)
        deg == FontTransform_degrees(style.transform)
        s2 == IF deg = 0
              THEN translate(s1, F2(pos[1]) + dx, F2(pos[2]) + dy - F2(extents.height))
              ELSE translate(rotate(translate(s1, F2(pos[1]), F2(pos[2])), deg),
                             dx, dy - F2(extents.height))
        s3 == append_layout(s2, l, extents, BackendColorExt_to_rgba(style.color))
    IN  restore(s3)

(***************************************************************************)
(* src/src/snapshot.rs: SnapshotBackend's own copies of the primitives.    *)
(***************************************************************************)
snapshot_FILL_RULE == "EvenOdd"

snapshot_to_rgba(color) ==
    [red   |-> <<color.rgb[1], 255>>,
     green |-> <<color.rgb[2], 255>>,
     blue  |-> <<color.rgb[3], 255>>,
     alpha |-> color.alpha]

snapshot_set_layout_style(layout, style) ==
    LET base == [family |-> style.family, size |-> style.size,
                 style |-> "Normal", weight |-> "Normal"]
        font_desc ==
            CASE style.style = "Normal"  -> [base EXCEPT !.style = "Normal"]
              [] style.style = "Bold"    -> [base EXCEPT !.weight = "Bold"]
              [] style.style = "Italic"  -> [base EXCEPT !.style = "Italic"]
              [] style.style = "Oblique" -> [base EXCEPT !.style = "Oblique"]
    IN  [layout EXCEPT !.font_desc = Some(font_desc)]

snapshot_draw_pixel(snapshot, point, color) ==
    append_node(snapshot, [kind |-> "color", rgba |-> snapshot_to_rgba(color),
                           bounds |-> <<point[1], point[2], 1, 1>>])

snapshot_stroke(snapshot, path, style) ==
    append_node(snapshot, [kind |-> "stroke", path |-> path, width |-> style.stroke_width,
                           rgba |-> snapshot_to_rgba(style.color)])

snapshot_draw_line(snapshot, from, to, style) ==
    LET path == line_to(move_to(<<>>, from[1], from[2]), to[1], to[2])
    IN  snapshot_stroke(snapshot, path, style)

snapshot_draw_rect(snapshot, upper_left, bottom_right, style, fill) ==
    LET bounds == <<upper_left[1], upper_left[2],
                    bottom_right[1] - upper_left[1], bottom_right[2] - upper_left[2]>>
        rgba == snapshot_to_rgba(style.color)
        w == style.stroke_width
    IN  IF fill
        THEN append_node(snapshot, [kind |-> "color", rgba |-> rgba, bounds |-> bounds])
        ELSE append_node(snapshot, [kind |-> "border", bounds |-> bounds,
                                    widths |-> <<w, w, w, w>>,
                                    colors |-> <<rgba, rgba, rgba, rgba>>])

snapshot_draw_path(snapshot, raw_path, style) ==
    IF raw_path = <<>> THEN snapshot
    ELSE LET first == Head(raw_path)
             path == line_to_all(move_to(<<>>, first[1], first[2]), Tail(raw_path))
         IN  snapshot_stroke(snapshot, path, style)

\* no path_builder.close() here: the path is handed to append_fill as built
snapshot_fill_polygon(snapshot, vert, style) ==
    IF vert = <<>> THEN snapshot
    ELSE LET first == Head(vert)
             path == line_to_all(move_to(<<>>, first[1], first[2]), Tail(vert))
         IN  append_node(snapshot, [kind |-> "fill", path |-> path, rule |-> snapshot_FILL_RULE,
                                    rgba |-> snapshot_to_rgba(style.color)])

snapshot_draw_circle(snapshot, center, radius, style, fill) ==
    LET path == add_circle(<<>>, center[1], center[2], radius)
    IN  IF fill
        THEN append_node(snapshot, [kind |-> "fill", path |-> path, rule |-> snapshot_FILL_RULE,
                                    rgba |-> snapshot_to_rgba(style.color)])
        ELSE snapshot_stroke(snapshot, path, style)

snapshot_estimate_text_size(layout, text, style, pixel_size) ==
    LET l == snapshot_set_layout_style(layout_set_text(layout, text), style)
    IN  [layout |-> l, size |-> <<as_u32(pixel_size[1]), as_u32(pixel_size[2])>>]

snapshot_dx(style, extents) ==
    CASE style.anchor.h_pos = "Left"   -> 0
      [] style.anchor.h_pos = "Right"  -> 0 - F2(extents.width)
      [] style.anchor.h_pos = "Center" -> 0 - extents.width

snapshot_dy(style, extents) ==
    CASE style.anchor.v_pos = "Top"    -> F2(extents.height)
      [] style.anchor.v_pos = "Center" -> extents.height
      [] style.anchor.v_pos = "Bottom" -> 0

snapshot_draw_text(snapshot, layout, text, style, pos, extents) ==
    LET l == snapshot_set_layout_style(layout_set_text(layout, text), style)
        s1 == save(snapshot)
        dx == snapshot_dx(style, extents)
        dy == snapshot_dy(style, extents)
        deg == FontTransform_degrees(style.transform)
        s2 == IF deg = 0
              THEN translate(s1, F2(pos[1]) + dx, F2(pos[2]) + dy - F2(extents.height))
              ELSE translate(rotate(translate(s1, F2(pos[1]), F2(pos[2])), deg),
                             dx, dy - F2(extents.height))
        s3 == append_layout(s2, l, extents, snapshot_to_rgba(style.color))
    IN  restore(s3)

(***************************************************************************)
(* src/src/paintable.rs: Paintable.                                        *)
(***************************************************************************)
Paintable_size == <<width, height>>

\* imp::Paintable::intrinsic_width / intrinsic_height
intrinsic_size == <<width, height>>

\* A set_node that tells the observers before it stores the node.
set_node_notifies_first(cell, n) ==
    LET observed == cell
        stored == n
    IN  [node |-> stored, stores |-> 1, notifies |-> 1, seen |-> observed]

\* The cell is replaced, then invalidate_contents() tells the observers, who
\* read the cell as it is at that moment (seen).
set_node(cell, n) ==
    LET stored == n
    IN  [node |-> stored, stores |-> 1, notifies |-> 1, seen |-> stored]

NoEffect(cell) == [node |-> cell, stores |-> 0, notifies |-> 0, seen |-> None]

\* A paint that pushes its clip and never pops it.
imp_snapshot_without_pop(cell, this_size, snapshot, w, h) ==
    IF ~IsSome(cell) THEN snapshot
    ELSE LET s1 == save(snapshot)
             s2 == scale(s1, w, this_size[1], h, this_size[2])
             s3 == push_clip(s2, <<0, 0, this_size[1], this_size[2]>>)
             s4 == append_node(s3, [kind |-> "node", content |-> Unwrap(cell)])
         IN  restore(s4)

\* imp::Paintable::snapshot: paint the retained node into the sink at (w, h)
imp_snapshot(cell, this_size, snapshot, w, h) ==
    IF ~IsSome(cell) THEN snapshot
    ELSE LET s1 == save(snapshot)
             s2 == scale(s1, w, this_size[1], h, this_size[2])
             s3 == push_clip(s2, <<0, 0, this_size[1], this_size[2]>>)
             s4 == append_node(s3, [kind |-> "node", content |-> Unwrap(cell)])
             s5 == pop(s4)
         IN  restore(s5)

(***************************************************************************)
(* The values the callers hand in.                                         *)
(***************************************************************************)
Orange == [rgb |-> <<255, 128, 0>>, alpha |-> 5]
Blue == [rgb |-> <<0, 0, 255>>, alpha |-> 10]
Thin == [color |-> Orange, stroke_width |-> 1]
Thick == [color |-> Blue, stroke_width |-> 3]

HPos == {"Left", "Center", "Right"}
VPos == {"Top", "Center", "Bottom"}
FontTransform == {"None", "Rotate90", "Rotate180", "Rotate270"}
FontStyle == {"Normal", "Bold", "Italic", "Oblique"}

TextStyle(h, v, tr, st) ==
    [family |-> "sans-serif", size |-> 12, style |-> st,
     anchor |-> [h_pos |-> h, v_pos |-> v], transform |-> tr, color |-> Orange]

TextCall(style, pos, ext) ==
    [text |-> "abc", style |-> style, pos |-> pos,
     extents |-> [width |-> ext[1], height |-> ext[2]], pixel_size |-> ext]

Coords == {<<0, 0>>, <<3, -1>>}

SeqsUpTo(S, n) == UNION {[1..k -> S] : k \in 0..n}

\* the sizes a Paintable is constructed with
Dims == {<<400, 300>>, <<2, 1>>}

\* the sizes a SnapshotBackend is constructed with
SnapshotDims == {<<640, 480>>}

\* the paints of the render pass, <<sink, (W, H)>>: a fresh sink at the
\* Paintable's own size, and a sink in use inside a save at another size
Paints ==
    {<<Snapshot_new, <<400, 300>>>>,
     <<save(translate(common_draw_pixel(Snapshot_new, <<5, 5>>, Blue), 2, 4)), <<800, 150>>>>}

\* the calls of a session in the life cycle
Session ==
    [maxNodes |-> MaxNodes,
     points   |-> {<<0, 0>>},
     colors   |-> {Orange},
     styles   |-> {Thin},
     segments |-> {<<<<0, 0>>, <<3, -1>>>>},
     rects    |-> {<<<<<<0, 0>>, <<1, 1>>>>, TRUE>>},
     paths    |-> {<<>>, <<<<0, 0>>, <<3, -1>>>>},
     circles  |-> {<<<<<<0, 0>>, 2>>, TRUE>>},
     texts    |-> {TextCall(TextStyle("Center", "Center", "None", "Normal"),
                            <<100, 100>>, <<50, 20>>)},
     measures |-> {TextCall(TextStyle("Center", "Center", "None", "Normal"),
                            <<100, 100>>, <<50, 20>>)}]

\* the same calls, in sessions that are committed over and over
Cycle == [Session EXCEPT !.maxNodes = CommitNodes]

\* the same calls, in sequences
Sequence == [Session EXCEPT !.maxNodes = SeqNodes]

\* the calls that exercise the primitives
Primitives ==
    [maxNodes |-> PrimNodes,
     points   |-> Coords,
     colors   |-> {Blue},
     styles   |-> {Thick},
     segments |-> {<<0, 0>>} \X Coords,
     rects    |-> {<<<<0, 0>>, <<3, 2>>>>, <<<<3, 2>>, <<0, 0>>>>} \X BOOLEAN,
     paths    |-> SeqsUpTo(Coords, MaxLen),
     circles  |-> {<<<<3, -1>>, 2>>} \X BOOLEAN,
     texts    |-> {TextCall(TextStyle(h, v, "None", "Normal"), <<100, 100>>, <<50, 20>>) :
                        h \in HPos, v \in VPos}
                  \cup {TextCall(TextStyle(h, "Center", "Rotate90", "Normal"),
                                  <<100, 100>>, <<50, 20>>) : h \in HPos}
                  \cup {TextCall(TextStyle(hv[1], hv[2], tr, "Bold"), <<-7, 4>>, <<51, 21>>) :
                        hv \in {<<"Center", "Center">>, <<"Right", "Top">>},
                        tr \in {"None", "Rotate180", "Rotate270"}}
                  \cup {TextCall(TextStyle("Left", "Bottom", "None", st), <<0, 0>>, <<0, 0>>) :
                        st \in {"Italic", "Oblique"}},
     measures |-> {TextCall(TextStyle("Left", "Top", "None", "Bold"), <<0, 0>>, <<51, 21>>)}]

(***************************************************************************)
(* The state after Paintable::new((w, h)): no backend yet.                 *)
(***************************************************************************)
\* The record of a call: what was called on which object, how it ended, the
\* session state, the recorder and the Paintable's node it found, whether a
\* present of the session had committed, its arguments, and how often it
\* stored a node and notified the observers.
Call(op, on, result, phase, before, args, eff) ==
    [op |-> op, on |-> on, result |-> result, phase |-> phase, before |-> before,
     presented |-> pb_presented, cell |-> node, args |-> args,
     stores |-> eff.stores, notifies |-> eff.notifies, seen |-> eff.seen]

Init ==
    /\ \E d \in Dims :
        /\ ctor_size = d
        /\ width = d[1]
        /\ height = d[2]
    /\ node = None
    /\ pb = "absent"
    /\ pb_snapshot = None
    /\ pb_size = <<0, 0>>
    /\ pb_presented = FALSE
    /\ sb = "absent"
    /\ sb_snapshot = Snapshot_new
    /\ sb_size = <<0, 0>>
    /\ sink = None
    /\ last = Call("new", "paintable", "ok", "-", None, <<>>, NoEffect(None))

PaintableVars == <<width, height, node, ctor_size>>
PBVars == <<pb, pb_snapshot, pb_size, pb_presented>>
SBVars == <<sb, sb_snapshot, sb_size>>

\* the session state of spec section 4.5, read off the backend
PB_phase ==
    IF IsSome(pb_snapshot) THEN "Recording"
    ELSE IF pb_presented THEN "Finalized" ELSE "Idle"

(***************************************************************************)
(* Paintable: clear and paint.                                             *)
(***************************************************************************)
\* A clear that forgets the size along with the content.
clear_resets_size ==
    LET eff == set_node(node, None)
    IN  /\ node' = eff.node
        /\ width' = 0
        /\ height' = 0
        /\ last' = Call("clear", "paintable", "ok", "-", None, <<>>, eff)
        /\ sink' = None
        /\ UNCHANGED <<ctor_size, PBVars, SBVars>>

Paintable_clear ==
    LET eff == set_node(node, None)
    IN  /\ node' = eff.node
        /\ last' = Call("clear", "paintable", "ok", "-", None, <<>>, eff)
        /\ sink' = None
        /\ UNCHANGED <<width, height, ctor_size, PBVars, SBVars>>

Paintable_snapshot ==
    \E p \in Paints :
        /\ sink' = Some(imp_snapshot(node, Paintable_size, p[1], p[2][1], p[2][2]))
        /\ last' = Call("snapshot", "paintable", "ok", "-", Some(p[1]), p[2], NoEffect(node))
        /\ UNCHANGED <<PaintableVars, PBVars, SBVars>>

(***************************************************************************)
(* PaintableBackend: the session.                                          *)
(***************************************************************************)
PaintableBackend_new ==
    /\ pb # "live"
    /\ sb = "absent"
    /\ pb' = "live"
    /\ pb_snapshot' = None
    /\ pb_size' = Paintable_size
    /\ pb_presented' = FALSE
    /\ last' = Call("new", "pb", "ok", "-", None, <<>>, NoEffect(node))
    /\ sink' = None
    /\ UNCHANGED <<PaintableVars, SBVars>>

\* An ensure_prepared that hands out a fresh recorder every time.
ensure_prepared_always_new ==
    /\ pb = "live"
    /\ pb_snapshot' = Some(Snapshot_new)
    /\ last' = Call("ensure_prepared", "pb", "ok", PB_phase, pb_snapshot, <<>>, NoEffect(node))
    /\ sink' = None
    /\ UNCHANGED <<PaintableVars, pb, pb_size, pb_presented, SBVars>>

\* An ensure_prepared that prepares a session once only.
ensure_prepared_once ==
    /\ pb = "live"
    /\ pb_snapshot' = IF pb_snapshot = None /\ ~pb_presented
                      THEN Some(Snapshot_new) ELSE pb_snapshot
    /\ last' = Call("ensure_prepared", "pb", "ok", PB_phase, pb_snapshot, <<>>, NoEffect(node))
    /\ sink' = None
    /\ UNCHANGED <<PaintableVars, pb, pb_size, pb_presented, SBVars>>

PaintableBackend_ensure_prepared ==
    /\ pb = "live"
    /\ pb_snapshot' = IF pb_snapshot = None THEN Some(Snapshot_new) ELSE pb_snapshot
    /\ last' = Call("ensure_prepared", "pb", "ok", PB_phase, pb_snapshot, <<>>, NoEffect(node))
    /\ sink' = None
    /\ UNCHANGED <<PaintableVars, pb, pb_size, pb_presented, SBVars>>

\* A self.snapshot() that prepares the backend instead of panicking.
PaintableBackend_snapshot_lazy(snapshot) ==
    IF IsSome(snapshot)
    THEN [panic |-> FALSE, snapshot |-> snapshot]
    ELSE [panic |-> FALSE, snapshot |-> Some(Snapshot_new)]

\* self.snapshot(): the recorder, or the panic "backend was not prepared"
PaintableBackend_snapshot(snapshot) ==
    IF IsSome(snapshot)
    THEN [panic |-> FALSE, snapshot |-> snapshot]
    ELSE [panic |-> TRUE, snapshot |-> snapshot]

\* A commit through as_ref() instead of take(): the recorder stays.
commit_without_take(cell, snapshot) ==
    IF IsSome(snapshot)
    THEN [left |-> snapshot, eff |-> set_node(cell, to_node(Unwrap(snapshot)))]
    ELSE [left |-> snapshot, eff |-> NoEffect(cell)]

\* A commit that patches the content in place: the recorded nodes are added
\* after the nodes the Paintable holds.
commit_appends(cell, snapshot) ==
    IF IsSome(snapshot)
    THEN LET held == IF IsSome(cell) THEN Unwrap(cell) ELSE <<>>
             all == held \o Unwrap(snapshot).nodes
         IN  [left |-> None,
              eff |-> set_node(cell, IF all = <<>> THEN None ELSE Some(all))]
    ELSE [left |-> None, eff |-> NoEffect(cell)]

\* if let Some(snapshot) = self.snapshot.take() { set_node(snapshot.to_node()) }
take_and_commit(cell, snapshot) ==
    IF IsSome(snapshot)
    THEN [left |-> None, eff |-> set_node(cell, to_node(Unwrap(snapshot)))]
    ELSE [left |-> None, eff |-> NoEffect(cell)]

PaintableBackend_present ==
    LET r == take_and_commit(node, pb_snapshot)
    IN  /\ pb = "live"
        /\ pb_snapshot' = r.left
        /\ node' = r.eff.node
        /\ pb_presented' = (pb_presented \/ r.eff.stores > 0)
        /\ last' = Call("present", "pb", "ok", PB_phase, pb_snapshot, <<>>, r.eff)
        /\ sink' = None
        /\ UNCHANGED <<width, height, ctor_size, pb, pb_size, SBVars>>

PaintableBackend_drop ==
    LET r == take_and_commit(node, pb_snapshot)
    IN  /\ pb = "live"
        /\ pb' = "dropped"
        /\ pb_snapshot' = r.left
        /\ node' = r.eff.node
        /\ last' = Call("drop", "pb", "ok", PB_phase, pb_snapshot, <<>>, r.eff)
        /\ sink' = None
        /\ UNCHANGED <<width, height, ctor_size, pb_size, pb_presented, SBVars>>

\* the recorder self.snapshot() hands to the primitive when it does not panic
PB_recorder ==
    LET got == PaintableBackend_snapshot(pb_snapshot)
    IN  IF IsSome(got.snapshot) THEN Unwrap(got.snapshot) ELSE Snapshot_new

\* A primitive that shows each node at once: it stores the recorder's nodes
\* in the Paintable after every call.
PB_primitive_commits(I, op, args, after) ==
    LET got == PaintableBackend_snapshot(pb_snapshot)
    IN  /\ pb = "live"
        /\ sink' = None
        /\ UNCHANGED <<width, height, ctor_size, pb_size, pb_presented, SBVars>>
        /\ IF got.panic
           THEN LET r == take_and_commit(node, got.snapshot)
                IN  /\ pb' = "dropped"
                    /\ pb_snapshot' = r.left
                    /\ node' = r.eff.node
                    /\ last' = Call(op, "pb", "panic", PB_phase, pb_snapshot, args, r.eff)
           ELSE LET eff == set_node(node, to_node(after))
                IN  /\ Len(after.nodes) <= I.maxNodes
                    /\ pb' = pb
                    /\ pb_snapshot' = Some(after)
                    /\ node' = eff.node
                    /\ last' = Call(op, "pb", "ok", PB_phase, pb_snapshot, args, eff)

\* A primitive of PaintableBackend: self.snapshot() panics on None ("backend
\* was not prepared"); the unwinding drops the backend, whose Drop finds no
\* recorder. Otherwise the recorder becomes after, what the primitive of
\* common.rs makes of PB_recorder.
PB_primitive(I, op, args, after) ==
    LET got == PaintableBackend_snapshot(pb_snapshot)
    IN  /\ pb = "live"
        /\ sink' = None
        /\ UNCHANGED <<width, height, ctor_size, pb_size, pb_presented, SBVars>>
        /\ IF got.panic
           THEN LET r == take_and_commit(node, got.snapshot)
                IN  /\ pb' = "dropped"
                    /\ pb_snapshot' = r.left
                    /\ node' = r.eff.node
                    /\ last' = Call(op, "pb", "panic", PB_phase, pb_snapshot, args, r.eff)
           ELSE /\ Len(after.nodes) <= I.maxNodes
                /\ pb' = pb
                /\ pb_snapshot' = Some(after)
                /\ node' = node
                /\ last' = Call(op, "pb", "ok", PB_phase, pb_snapshot, args, NoEffect(node))

PaintableBackend_draw_pixel(I) ==
    \E point \in I.points, color \in I.colors :
        PB_primitive(I, "draw_pixel", <<point, color>>,
                     common_draw_pixel(PB_recorder, point, color))

PaintableBackend_draw_line(I) ==
    \E seg \in I.segments, style \in I.styles :
        PB_primitive(I, "draw_line", <<seg, style>>,
                     common_draw_line(PB_recorder, seg[1], seg[2], style))

PaintableBackend_draw_rect(I) ==
    \E r \in I.rects, style \in I.styles :
        PB_primitive(I, "draw_rect", <<r, style>>,
                     common_draw_rect(PB_recorder, r[1][1], r[1][2], style, r[2]))

PaintableBackend_draw_path(I) ==
    \E raw_path \in I.paths, style \in I.styles :
        PB_primitive(I, "draw_path", <<raw_path, style>>,
                     common_draw_path(PB_recorder, raw_path, style))

PaintableBackend_fill_polygon(I) ==
    \E vert \in I.paths, style \in I.styles :
        PB_primitive(I, "fill_polygon", <<vert, style>>,
                     common_fill_polygon(PB_recorder, vert, style))

PaintableBackend_draw_circle(I) ==
    \E c \in I.circles, style \in I.styles :
        PB_primitive(I, "draw_circle", <<c, style>>,
                     common_draw_circle(PB_recorder, c[1][1], c[1][2], style, c[2]))

PaintableBackend_draw_text(I) ==
    \E t \in I.texts :
        PB_primitive(I, "draw_text", <<t>>,
                     common_draw_text(PB_recorder, Layout_new, t.text, t.style, t.pos, t.extents))

\* &self and the layout only: the recorder is not touched
PaintableBackend_estimate_text_size(I) ==
    \E t \in I.measures :
        LET r == common_estimate_text_size(Layout_new, t.text, t.style, t.pixel_size)
        IN  /\ pb = "live"
            /\ last' = Call("estimate_text_size", "pb", "ok", PB_phase, pb_snapshot,
                            <<t, r.size>>, NoEffect(node))
            /\ sink' = None
            /\ UNCHANGED <<PaintableVars, PBVars, SBVars>>

(***************************************************************************)
(* SnapshotBackend: draws on the caller's recorder; nothing to commit.     *)
(***************************************************************************)
SnapshotBackend_new ==
    \E size \in SnapshotDims :
        /\ sb = "absent"
        /\ pb # "live"
        /\ sb' = "live"
        /\ sb_snapshot' = Snapshot_new
        /\ sb_size' = size
        /\ last' = Call("new", "sb", "ok", "-", None, <<size>>, NoEffect(node))
        /\ sink' = None
        /\ UNCHANGED <<PaintableVars, PBVars>>

\* the borrow ends and the caller has its recorder back; SnapshotBackend has
\* no Drop
SnapshotBackend_drop ==
    /\ sb = "live"
    /\ sb' = "absent"
    /\ sb_snapshot' = Snapshot_new
    /\ sb_size' = <<0, 0>>
    /\ last' = Call("drop", "sb", "ok", "-", None, <<>>, NoEffect(node))
    /\ sink' = None
    /\ UNCHANGED <<PaintableVars, PBVars>>

SnapshotBackend_ensure_prepared ==
    /\ sb = "live"
    /\ last' = Call("ensure_prepared", "sb", "ok", "-", Some(sb_snapshot), <<>>, NoEffect(node))
    /\ sink' = None
    /\ UNCHANGED <<PaintableVars, PBVars, SBVars>>

SnapshotBackend_present ==
    /\ sb = "live"
    /\ last' = Call("present", "sb", "ok", "-", Some(sb_snapshot), <<>>, NoEffect(node))
    /\ sink' = None
    /\ UNCHANGED <<PaintableVars, PBVars, SBVars>>

\* A primitive of SnapshotBackend: the caller's recorder becomes after.
SB_primitive(I, op, args, after) ==
    /\ sb = "live"
    /\ Len(after.nodes) <= I.maxNodes
    /\ sb_snapshot' = after
    /\ last' = Call(op, "sb", "ok", "-", Some(sb_snapshot), args, NoEffect(node))
    /\ sink' = None
    /\ UNCHANGED <<PaintableVars, PBVars, sb, sb_size>>

SnapshotBackend_draw_pixel(I) ==
    \E point \in I.points, color \in I.colors :
        SB_primitive(I, "draw_pixel", <<point, color>>,
                     snapshot_draw_pixel(sb_snapshot, point, color))

SnapshotBackend_draw_line(I) ==
    \E seg \in I.segments, style \in I.styles :
        SB_primitive(I, "draw_line", <<seg, style>>,
                     snapshot_draw_line(sb_snapshot, seg[1], seg[2], style))

SnapshotBackend_draw_rect(I) ==
    \E r \in I.rects, style \in I.styles :
        SB_primitive(I, "draw_rect", <<r, style>>,
                     snapshot_draw_rect(sb_snapshot, r[1][1], r[1][2], style, r[2]))

SnapshotBackend_draw_path(I) ==
    \E raw_path \in I.paths, style \in I.styles :
        SB_primitive(I, "draw_path", <<raw_path, style>>,
                     snapshot_draw_path(sb_snapshot, raw_path, style))

SnapshotBackend_fill_polygon(I) ==
    \E vert \in I.paths, style \in I.styles :
        SB_primitive(I, "fill_polygon", <<vert, style>>,
                     snapshot_fill_polygon(sb_snapshot, vert, style))

SnapshotBackend_draw_circle(I) ==
    \E c \in I.circles, style \in I.styles :
        SB_primitive(I, "draw_circle", <<c, style>>,
                     snapshot_draw_circle(sb_snapshot, c[1][1], c[1][2], style, c[2]))

SnapshotBackend_draw_text(I) ==
    \E t \in I.texts :
        SB_primitive(I, "draw_text", <<t>>,
                     snapshot_draw_text(sb_snapshot, Layout_new, t.text, t.style, t.pos, t.extents))

SnapshotBackend_estimate_text_size(I) ==
    \E t \in I.measures :
        LET r == snapshot_estimate_text_size(Layout_new, t.text, t.style, t.pixel_size)
        IN  /\ sb = "live"
            /\ last' = Call("estimate_text_size", "sb", "ok", "-", Some(sb_snapshot),
                            <<t, r.size>>, NoEffect(node))
            /\ sink' = None
            /\ UNCHANGED <<PaintableVars, PBVars, SBVars>>

(***************************************************************************)
(* Spec: the life cycle of PaintableBackend sessions, one at a time, on one *)
(* Paintable, with clears and paints in between.                           *)
(* SpecSeq: sequences of calls on both backends, before any commit.        *)
(* SpecPrim: the primitives of both backends on a wide set of arguments.   *)
(***************************************************************************)
Next ==
    \/ Paintable_clear
    \/ Paintable_snapshot
    \/ PaintableBackend_new
    \/ PaintableBackend_ensure_prepared
    \/ PaintableBackend_present
    \/ PaintableBackend_drop
    \/ PaintableBackend_draw_pixel(Session)
    \/ PaintableBackend_draw_line(Session)
    \/ PaintableBackend_draw_rect(Session)
    \/ PaintableBackend_draw_path(Session)
    \/ PaintableBackend_fill_polygon(Session)
    \/ PaintableBackend_draw_circle(Session)
    \/ PaintableBackend_draw_text(Session)
    \/ PaintableBackend_estimate_text_size(Session)

Spec == Init /\ [][Next]_vars

Calls(I) ==
    \/ PaintableBackend_new
    \/ PaintableBackend_ensure_prepared
    \/ PaintableBackend_draw_pixel(I)
    \/ PaintableBackend_draw_line(I)
    \/ PaintableBackend_draw_rect(I)
    \/ PaintableBackend_draw_path(I)
    \/ PaintableBackend_fill_polygon(I)
    \/ PaintableBackend_draw_circle(I)
    \/ PaintableBackend_draw_text(I)
    \/ PaintableBackend_estimate_text_size(I)
    \/ SnapshotBackend_new
    \/ SnapshotBackend_drop
    \/ SnapshotBackend_ensure_prepared
    \/ SnapshotBackend_present
    \/ SnapshotBackend_draw_pixel(I)
    \/ SnapshotBackend_draw_line(I)
    \/ SnapshotBackend_draw_rect(I)
    \/ SnapshotBackend_draw_path(I)
    \/ SnapshotBackend_fill_polygon(I)
    \/ SnapshotBackend_draw_circle(I)
    \/ SnapshotBackend_draw_text(I)
    \/ SnapshotBackend_estimate_text_size(I)

\* the backends next to a 400 x 300 Paintable
InitCalls == Init /\ ctor_size = <<400, 300>>

NextSeq == Calls(Sequence)

SpecSeq == InitCalls /\ [][NextSeq]_vars

NextPrim == Calls(Primitives)

SpecPrim == InitCalls /\ [][NextPrim]_vars

\* sessions on one Paintable, each committed by present or drop, with clears
NextCommit ==
    \/ Paintable_clear
    \/ PaintableBackend_new
    \/ PaintableBackend_ensure_prepared
    \/ PaintableBackend_present
    \/ PaintableBackend_drop
    \/ PaintableBackend_draw_pixel(Cycle)
    \/ PaintableBackend_draw_line(Cycle)
    \/ PaintableBackend_draw_path(Cycle)

SpecCommit == InitCalls /\ [][NextCommit]_vars

\* impl DrawingBackend for PaintableBackend: each method hands its arguments
\* and the recorder to the function of common.rs
PaintableBackend_apply(op, snapshot, args) ==
    CASE op = "draw_pixel" -> common_draw_pixel(snapshot, args[1], args[2])
      [] op = "draw_line" -> common_draw_line(snapshot, args[1][1], args[1][2], args[2])
      [] op = "draw_rect" ->
            common_draw_rect(snapshot, args[1][1][1], args[1][1][2], args[2], args[1][2])
      [] op = "draw_path" -> common_draw_path(snapshot, args[1], args[2])
      [] op = "fill_polygon" -> common_fill_polygon(snapshot, args[1], args[2])
      [] op = "draw_circle" ->
            common_draw_circle(snapshot, args[1][1][1], args[1][1][2], args[2], args[1][2])
      [] op = "draw_text" ->
            common_draw_text(snapshot, Layout_new, args[1].text, args[1].style,
                             args[1].pos, args[1].extents)

\* impl DrawingBackend for SnapshotBackend: each method draws on the caller's
\* recorder itself
SnapshotBackend_apply(op, snapshot, args) ==
    CASE op = "draw_pixel" -> snapshot_draw_pixel(snapshot, args[1], args[2])
      [] op = "draw_line" -> snapshot_draw_line(snapshot, args[1][1], args[1][2], args[2])
      [] op = "draw_rect" ->
            snapshot_draw_rect(snapshot, args[1][1][1], args[1][1][2], args[2], args[1][2])
      [] op = "draw_path" -> snapshot_draw_path(snapshot, args[1], args[2])
      [] op = "fill_polygon" -> snapshot_fill_polygon(snapshot, args[1], args[2])
      [] op = "draw_circle" ->
            snapshot_draw_circle(snapshot, args[1][1][1], args[1][1][2], args[2], args[1][2])
      [] op = "draw_text" ->
            snapshot_draw_text(snapshot, Layout_new, args[1].text, args[1].style,
                               args[1].pos, args[1].extents)

(***************************************************************************)
(* The properties.                                                         *)
(***************************************************************************)
DrawOps ==
    {"draw_pixel", "draw_line", "draw_rect", "draw_path", "fill_polygon",
     "draw_circle", "draw_text"}

\* C1, as claimed: on an Idle PaintableBackend every draw call and every
\* estimate_text_size succeeds and leaves the session Recording.
C1_IdleCallPrepares ==
    (last.on = "pb" /\ last.phase = "Idle"
        /\ last.op \in DrawOps \cup {"estimate_text_size"})
    => (last.result = "ok" /\ PB_phase = "Recording")

\* C1, amended: only ensure_prepared creates the recorder. On an Idle
\* PaintableBackend a draw call panics, records nothing and stores nothing in
\* the Paintable; estimate_text_size succeeds and leaves the session Idle;
\* ensure_prepared leaves it Recording with an empty recorder. On a Recording
\* session every draw call and estimate_text_size succeeds and leaves it
\* Recording.
C1_OnlyEnsurePreparedPrepares ==
    /\ (last.on = "pb" /\ last.phase = "Idle" /\ last.op \in DrawOps)
        => /\ last.result = "panic"
           /\ ~IsSome(pb_snapshot)
           /\ last.stores = 0
           /\ node = last.cell
    /\ (last.on = "pb" /\ last.phase = "Idle" /\ last.op = "estimate_text_size")
        => (last.result = "ok" /\ PB_phase = "Idle")
    /\ (last.on = "pb" /\ last.phase = "Idle" /\ last.op = "ensure_prepared")
        => (last.result = "ok" /\ pb_snapshot = Some(Snapshot_new))
    /\ (last.on = "pb" /\ last.phase = "Recording"
            /\ last.op \in DrawOps \cup {"estimate_text_size"})
        => (last.result = "ok" /\ PB_phase = "Recording")

\* C1: a draw call on an Idle session has panicked.
C1_Witness ==
    /\ last.on = "pb"
    /\ last.phase = "Idle"
    /\ last.op = "draw_text"
    /\ last.result = "panic"

\* C2: a present or a drop that finds a recorder takes it and stores its
\* nodes in the Paintable exactly once; one that finds none (never prepared,
\* already presented, or the drop that unwinds a panic) stores nothing and
\* leaves the Paintable's node as it was. Either way no recorder is left, so
\* no recording is committed twice.
C2_CommitOnce ==
    /\ (last.on = "pb" /\ last.op \in {"present", "drop"})
        => /\ ~IsSome(pb_snapshot)
           /\ IF IsSome(last.before)
              THEN last.stores = 1 /\ node = to_node(Unwrap(last.before))
              ELSE last.stores = 0 /\ node = last.cell
    /\ (last.on = "pb" /\ last.result = "panic")
        => (pb = "dropped" /\ last.stores = 0 /\ node = last.cell)
    /\ (pb = "dropped") => ~IsSome(pb_snapshot)

\* C2: the session was dropped after a present had committed its recording.
C2_Witness ==
    /\ last.on = "pb"
    /\ last.op = "drop"
    /\ last.phase = "Finalized"
    /\ IsSome(node)
    /\ last.stores = 0

\* C3, as claimed: once a present has committed, the session never has a
\* recorder again.
C3_FinalizedIsTerminal ==
    (pb = "live" /\ pb_presented) => ~IsSome(pb_snapshot)

\* C3, amended: a present leaves the session without a recorder, as when
\* Idle. In that state present and drop store nothing, a draw call panics
\* and estimate_text_size changes nothing; but ensure_prepared starts a new,
\* empty recording, and the present or drop that ends it commits again,
\* replacing the Paintable's node.
C3_FinalizedRestarts ==
    /\ (last.on = "pb" /\ last.op = "present") => ~IsSome(pb_snapshot)
    /\ (last.on = "pb" /\ last.phase = "Finalized")
        => /\ last.op \in {"present", "drop"} => (last.stores = 0 /\ node = last.cell)
           /\ last.op \in DrawOps
                => (last.result = "panic" /\ last.stores = 0 /\ node = last.cell)
           /\ last.op = "estimate_text_size" => (PB_phase = "Finalized" /\ node = last.cell)
           /\ last.op = "ensure_prepared"
                => (pb_snapshot = Some(Snapshot_new) /\ node = last.cell)
    /\ (last.on = "pb" /\ last.presented /\ last.op \in {"present", "drop"}
            /\ IsSome(last.before))
        => (last.stores = 1 /\ node = to_node(Unwrap(last.before)))

\* C3: a second present of one session has committed a second recording.
C3_Witness ==
    /\ last.on = "pb"
    /\ last.presented
    /\ last.op = "present"
    /\ last.stores = 1
    /\ IsSome(node)

\* C4: ensure_prepared returns success on both backends; on a Recording
\* PaintableBackend it keeps the recorder with everything recorded so far, on
\* one without a recorder it creates an empty one, and on a SnapshotBackend
\* it leaves the caller's recorder as it is.
C4_EnsurePreparedIdempotent ==
    (last.op = "ensure_prepared")
    => /\ last.result = "ok"
       /\ (last.on = "pb" /\ IsSome(last.before)) => pb_snapshot = last.before
       /\ (last.on = "pb" /\ ~IsSome(last.before)) => pb_snapshot = Some(Snapshot_new)
       /\ (last.on = "sb") => Some(sb_snapshot) = last.before
       /\ last.stores = 0
       /\ node = last.cell

\* C4: ensure_prepared was called on a session that had recorded two nodes.
C4_Witness ==
    /\ last.op = "ensure_prepared"
    /\ last.on = "pb"
    /\ IsSome(last.before)
    /\ Len(Unwrap(last.before).nodes) >= 2
    /\ pb_snapshot = last.before

\* the recorder the latest call drew on
Recorder == IF last.on = "pb" THEN Unwrap(pb_snapshot) ELSE sb_snapshot

LastEntry(s) == s.nodes[Len(s.nodes)]

\* move-to the first point, line-to each later point, then close
ClosedPolygon(vert) ==
    [i \in 1..(Len(vert) + 1) |->
        IF i = 1 THEN [op |-> "move_to", x |-> vert[1][1], y |-> vert[1][2], r |-> 0]
        ELSE IF i <= Len(vert)
             THEN [op |-> "line_to", x |-> vert[i][1], y |-> vert[i][2], r |-> 0]
             ELSE [op |-> "close", x |-> 0, y |-> 0, r |-> 0]]

\* C5, as claimed: on both backends fill_polygon of a non-empty sequence
\* appends a fill node whose path is move-to the first point, line-to each
\* later point, and a close.
C5_PolygonClosed ==
    (last.op = "fill_polygon" /\ last.result = "ok" /\ last.args[1] # <<>>)
    => /\ LastEntry(Recorder).node.kind = "fill"
       /\ LastEntry(Recorder).node.path = ClosedPolygon(last.args[1])

\* C6: a draw call that finds a recorder returns success and appends exactly
\* one node after the nodes already recorded, except draw_path and
\* fill_polygon of the empty sequence, which append none; so the node count
\* of a recorder is the number of calls on it less the empty-sequence ones.
C6_OneNodePerCall ==
    (last.op \in DrawOps /\ IsSome(last.before))
    => LET was == Unwrap(last.before).nodes
           empty == last.op \in {"draw_path", "fill_polygon"} /\ last.args[1] = <<>>
       IN  /\ last.result = "ok"
           /\ Len(Recorder.nodes) = Len(was) + (IF empty THEN 0 ELSE 1)
           /\ SubSeq(Recorder.nodes, 1, Len(was)) = was

\* C6: draw_path of the empty sequence on a recorder that holds two nodes.
C6_Witness ==
    /\ last.op = "draw_path"
    /\ last.on = "pb"
    /\ last.result = "ok"
    /\ last.args[1] = <<>>
    /\ Len(Unwrap(last.before).nodes) = 2
    /\ Len(Unwrap(pb_snapshot).nodes) = 2

\* C7: the Paintable's size and intrinsic size are the (w, h) given to
\* Paintable::new in every reachable state.
C7_SizeFixed ==
    /\ Paintable_size = ctor_size
    /\ intrinsic_size = ctor_size

\* C7: a 400 x 300 Paintable whose committed content has just been cleared.
C7_Witness ==
    /\ ctor_size = <<400, 300>>
    /\ last.op = "clear"
    /\ IsSome(last.cell)
    /\ Paintable_size = <<400, 300>>

\* C8: a call notifies the observers exactly as often as it stores a node;
\* clear and every present or drop that finds a recorder store exactly once;
\* the content changes only by a store; and the observers, reading the
\* content when notified, see the content just stored.
C8_NotifyAfterStore ==
    /\ last.notifies = last.stores
    /\ last.stores \in {0, 1}
    /\ (last.op = "clear") => (last.stores = 1 /\ ~IsSome(node))
    /\ (last.on = "pb" /\ last.op \in {"present", "drop"} /\ IsSome(last.before))
        => last.stores = 1
    /\ (node # last.cell) => last.stores = 1
    /\ (last.notifies >= 1) => last.seen = node

\* C8: a present has replaced the content and notified once.
C8_Witness ==
    /\ last.op = "present"
    /\ last.notifies = 1
    /\ IsSome(node)
    /\ node # last.cell

\* C9: a paint of a Paintable without content makes no call on the sink and
\* leaves it as it was; a paint of one with content appends exactly one node
\* after the sink's nodes and leaves the sink's save / clip stack and
\* transform as they were.
C9_PaintScoped ==
    (last.op = "snapshot")
    => LET s0 == Unwrap(last.before)
           s1 == Unwrap(sink)
       IN  IF ~IsSome(node)
           THEN s1 = s0
           ELSE /\ Len(s1.nodes) = Len(s0.nodes) + 1
                /\ SubSeq(s1.nodes, 1, Len(s0.nodes)) = s0.nodes
                /\ LastEntry(s1).node = [kind |-> "node", content |-> Unwrap(node)]
                /\ s1.stack = s0.stack
                /\ s1.xf = s0.xf

\* C9: a Paintable with content was painted into a sink that was inside a save.
C9_Witness ==
    /\ last.op = "snapshot"
    /\ IsSome(node)
    /\ Unwrap(last.before).stack # <<>>
    /\ Len(Unwrap(sink).nodes) = 2

\* the offsets of the claim, in half pixels
C10_hOff(h_pos, w) ==
    IF h_pos = "Left" THEN 0 ELSE IF h_pos = "Center" THEN 0 - w ELSE 0 - 2 * w

C10_vOff(v_pos, h) ==
    IF v_pos = "Top" THEN 2 * h ELSE IF v_pos = "Center" THEN h ELSE 0

C10_translate(x, y) == [op |-> "translate", a |-> x, b |-> y, c |-> 0, d |-> 0]

C10_rotate(deg) == [op |-> "rotate", a |-> deg, b |-> 0, c |-> 0, d |-> 0]

C10_placement(t) ==
    LET w == t.extents.width
        h == t.extents.height
        dx == C10_hOff(t.style.anchor.h_pos, w)
        dy == C10_vOff(t.style.anchor.v_pos, h) - 2 * h
        deg == IF t.style.transform = "Rotate90" THEN 90
               ELSE IF t.style.transform = "Rotate180" THEN 180 ELSE 270
    IN  IF t.style.transform = "None"
        THEN <<C10_translate(2 * t.pos[1] + dx, 2 * t.pos[2] + dy)>>
        ELSE <<C10_translate(2 * t.pos[1], 2 * t.pos[2]), C10_rotate(deg),
               C10_translate(dx, dy)>>

\* C10: on both backends the text node of draw_text is placed, after the
\* transform in force, by one translate to (pos.x + hOff, pos.y + vOff -
\* height) without rotation, and by translate to pos, rotate by 90 / 180 / 270
\* degrees, translate by (hOff, vOff - height) with one; for extents (50, 20)
\* at (100, 100) without rotation Left/Top gives (100, 100) and Center/Center
\* (75, 90), which are (200, 200) and (150, 180) half pixels.
C10_TextPlacement ==
    (last.op = "draw_text" /\ last.result = "ok")
    => LET t == last.args[1]
           e == LastEntry(Recorder)
           base == Unwrap(last.before).xf
           plain == /\ t.style.transform = "None"
                    /\ t.pos = <<100, 100>>
                    /\ t.extents = [width |-> 50, height |-> 20]
       IN  /\ e.node.kind = "text"
           /\ e.xf = base \o C10_placement(t)
           /\ (plain /\ t.style.anchor = [h_pos |-> "Left", v_pos |-> "Top"])
                => e.xf = base \o <<C10_translate(200, 200)>>
           /\ (plain /\ t.style.anchor = [h_pos |-> "Center", v_pos |-> "Center"])
                => e.xf = base \o <<C10_translate(150, 180)>>

\* C10: SnapshotBackend has drawn a Center/Center text of extents (50, 20) at
\* (100, 100) without rotation.
C10_Witness ==
    /\ last.op = "draw_text"
    /\ last.on = "sb"
    /\ last.args[1].style.anchor = [h_pos |-> "Center", v_pos |-> "Center"]
    /\ last.args[1].style.transform = "None"
    /\ last.args[1].pos = <<100, 100>>
    /\ last.args[1].extents = [width |-> 50, height |-> 20]
    /\ LastEntry(sb_snapshot).xf = <<C10_translate(150, 180)>>

\* C11: the Paintable's content changes only at a commit or a clear.
\* ensure_prepared, every draw call (the one that panics included),
\* estimate_text_size, a present or drop that finds no recorder, and a paint
\* leave the Paintable's node as it was, store nothing and notify nobody; and
\* a paint shows the node of the Paintable, whatever the session has recorded
\* since the last commit.
C11_ContentChangesAtCommitOrClear ==
    /\ (\/ last.op \in DrawOps \cup {"ensure_prepared", "estimate_text_size", "snapshot"}
        \/ (last.on = "pb" /\ last.op \in {"present", "drop"} /\ ~IsSome(last.before)))
        => (node = last.cell /\ last.stores = 0 /\ last.notifies = 0)
    /\ (node # last.cell)
        => \/ last.op = "clear"
           \/ (last.on = "pb" /\ last.op \in {"present", "drop"} /\ IsSome(last.before))
    /\ (last.op = "snapshot" /\ IsSome(node))
        => LastEntry(Unwrap(sink)).node = [kind |-> "node", content |-> Unwrap(last.cell)]

\* C11: a paint in the middle of a recording session: the session has
\* recorded a node that differs from the committed content, and the sink got
\* the committed content.
C11_Witness ==
    /\ last.op = "snapshot"
    /\ PB_phase = "Recording"
    /\ IsSome(node)
    /\ to_node(Unwrap(pb_snapshot)) # None
    /\ to_node(Unwrap(pb_snapshot)) # node
    /\ LastEntry(Unwrap(sink)).node.content = Unwrap(node)

\* C12: a commit replaces the Paintable's content wholesale. A draw call on
\* a Recording session leaves the recorder holding the nodes it held followed
\* by the nodes of that call, so the recorder holds the nodes of the session
\* in the order of the calls; a present or drop of a Recording session makes
\* the Paintable's node exactly those nodes (no node at all when the session
\* recorded none) whatever the Paintable held before; and this holds for
\* every commit, however many sessions were committed before it.
C12_CommitReplacesWholesale ==
    /\ (last.on = "pb" /\ last.op \in DrawOps /\ last.result = "ok")
        => Unwrap(pb_snapshot).nodes
             = Unwrap(last.before).nodes
                 \o PaintableBackend_apply(last.op, Snapshot_new, last.args).nodes
    /\ (last.on = "pb" /\ last.op \in {"present", "drop"} /\ IsSome(last.before))
        => LET recorded == Unwrap(last.before).nodes
           IN  /\ recorded = <<>> => node = None
               /\ recorded # <<>> => node = Some(recorded)
               /\ last.seen = node

\* C12: a later commit on a Paintable that held two nodes of an earlier
\* commit: the session recorded the same two nodes in the other order, and
\* the Paintable holds them in the order of the session.
C12_Witness ==
    /\ last.on = "pb"
    /\ last.op \in {"present", "drop"}
    /\ IsSome(last.before)
    /\ IsSome(last.cell)
    /\ Len(Unwrap(last.cell)) = 2
    /\ IsSome(node)
    /\ Len(Unwrap(node)) = 2
    /\ Unwrap(node)[1] = Unwrap(last.cell)[2]
    /\ Unwrap(node)[2] = Unwrap(last.cell)[1]
    /\ Unwrap(node)[1] # Unwrap(node)[2]

\* C13, as claimed: a draw call with the same arguments on the same recorder
\* leaves the same nodes (kind, path operations, fill rule, color, stroke
\* width, transforms) whether PaintableBackend or SnapshotBackend makes it.
C13_BackendsEquivalent ==
    (last.op \in DrawOps /\ last.result = "ok")
    => PaintableBackend_apply(last.op, Unwrap(last.before), last.args)
         = SnapshotBackend_apply(last.op, Unwrap(last.before), last.args)

====
